---- MODULE Spec2Model ----
(***************************************************************************)
(* Model of the AI orchestration and progress state engine of Artifex:    *)
(* the service operations of services/geminiService.ts and the path       *)
(* progression state machine of App.tsx, Onboarding.tsx and PathView.tsx. *)
(*                                                                         *)
(* Four specifications are given.                                          *)
(*   Spec           the application: onboarding, navigation, the PathView *)
(*                  submission flow and step completion.                   *)
(*   SpecService    the service operations taken one call at a time, with *)
(*                  the backend's answer drawn from bounded sets.          *)
(*   SpecChallenge  a challenge session: generation, the preview modal,   *)
(*                  the timer, hints, the submission and the dismissal.    *)
(*   SpecChat       the chat panel: input, sends and their responses.     *)
(***************************************************************************)
EXTENDS Integers, Sequences, FiniteSets, TLC

(***************************************************************************)
(* Bounds of the model.                                                    *)
(***************************************************************************)
\* Longest steps array the backend returns.
MaxSteps == 3
\* Number of learning paths a session adds.
MaxPaths == 2
\* Cap on the xp counter: a completion that would pass it is not taken.
MaxXp == 150
\* Longest response text, in tokens.
MaxTextLen == 3
\* Longest parts list of an image response.
MaxParts == 2
\* Most ticks of the challenge timer in one challenge session.
MaxElapsed == 60
\* Most hints requested in one challenge session.
MaxHints == 15
\* Longest chat transcript.
MaxMessages == 7
\* Most fragments of one streamed response.
MaxFragments == 2
\* The readings of the clock of the chat panel.
MaxClock == 3

(***************************************************************************)
(* JavaScript values.  A scalar is a record with its type and payload, so *)
(* that undefined, 0 and "" stay distinct values with JS truthiness.      *)
(***************************************************************************)
Undefined == [type |-> "undefined", n |-> 0, s |-> "", b |-> FALSE]
Num(k) == [type |-> "number", n |-> k, s |-> "", b |-> FALSE]
Str(x) == [type |-> "string", n |-> 0, s |-> x, b |-> FALSE]
Bool(v) == [type |-> "boolean", n |-> 0, s |-> "", b |-> v]

\* ToBoolean of a scalar: undefined, 0, "" and false are falsy.
Truthy(v) ==
    CASE v.type = "undefined" -> FALSE
      [] v.type = "number" -> v.n # 0
      [] v.type = "string" -> v.s # ""
      [] v.type = "boolean" -> v.b

\* a || d on scalars.
OrElse(v, d) == IF Truthy(v) THEN v ELSE d

(***************************************************************************)
(* Response text.  A text is a sequence of tokens: the braces, the        *)
(* members of an object (one token standing for a well-formed member      *)
(* list, whose meaning is the body carried by the response), prose, and   *)
(* the JSON literals null and 7.                                           *)
(***************************************************************************)
Token == {"{", "}", "members", "prose", "null", "7"}

RECURSIVE SeqsUpTo(_, _)
SeqsUpTo(S, n) ==
    IF n = 0 THEN {<<>>}
    ELSE LET shorter == SeqsUpTo(S, n - 1)
         IN shorter \cup {Append(q, x) : q \in {r \in shorter : Len(r) = n - 1}, x \in S}

Texts == SeqsUpTo(Token, MaxTextLen)

\* JSON.parse: the kind of value a text denotes, or "throw" (SyntaxError).
JSONParse(text) ==
    CASE text = <<"{", "members", "}">> -> "object"
      [] text = <<"{", "}">> -> "emptyObject"
      [] text = <<"null">> -> "null"
      [] text = <<"7">> -> "primitive"
      [] OTHER -> "throw"

FirstBrace(text) ==
    LET opens == {i \in DOMAIN text : text[i] = "{"}
    IN IF opens = {} THEN 0 ELSE CHOOSE i \in opens : \A j \in opens : i <= j

LastBrace(text) ==
    LET closes == {i \in DOMAIN text : text[i] = "}"}
    IN IF closes = {} THEN 0 ELSE CHOOSE i \in closes : \A j \in closes : j <= i

\* The match of a lazy pattern: the leftmost "{" through the first "}" after it.
BraceMatchFirstClose(text) ==
    LET first == FirstBrace(text)
        after == {i \in DOMAIN text : text[i] = "}" /\ i > first}
    IN IF first # 0 /\ after # {}
       THEN SubSeq(text, first, CHOOSE i \in after : \A j \in after : i <= j)
       ELSE <<>>

\* text.match(/\{[\s\S]*\}/): the leftmost "{" through the last "}" after it.
BraceMatch(text) ==
    LET first == FirstBrace(text)
        last == LastBrace(text)
    IN IF first # 0 /\ first < last THEN SubSeq(text, first, last) ELSE <<>>

\* parseJSON: the clean parse, else the parse of the brace match, else a throw.
parseJSON(text) ==
    IF JSONParse(text) # "throw" THEN JSONParse(text)
    ELSE IF BraceMatch(text) # <<>> THEN JSONParse(BraceMatch(text))
    ELSE "throw"

\* response.text || "{}"
TextOrEmptyObject(text) == IF text = <<>> THEN <<"{", "}">> ELSE text

(***************************************************************************)
(* Learning paths.                                                         *)
(***************************************************************************)
StepStatus == {"locked", "active", "completed", "reviewing"}
\* What the backend may put in a step's status field; "none" is no field.
BackendStatus == StepStatus \cup {"none"}

\* The xpReward the backend gives the step at position i: a positive
\* number, zero, or no field at all.
RewardAt(i) ==
    CASE i % 3 = 1 -> Num(20)
      [] i % 3 = 2 -> Num(0)
      [] OTHER -> Undefined

\* An xpReward below zero: the answer is JSON of the model's making and
\* no schema is given to the call.
NegativeReward == Num(-30)

\* The steps arrays of a backend answer: ids unique within the array (the
\* position), any of the given statuses on each step, the rewards of
\* RewardAt; and the arrays of one step with a negative reward.
BackendSteps(statuses) ==
    {[i \in DOMAIN f |-> [id |-> i, status |-> f[i], xpReward |-> RewardAt(i)]] :
        f \in UNION {[1..n -> statuses] : n \in 0..MaxSteps}}
    \cup {<<[id |-> 1, status |-> st, xpReward |-> NegativeReward]>> : st \in statuses}

\* The parsed path object: steps is an array, missing, or not an array.
PathBodies(statuses) ==
    {[stepsKind |-> "array", steps |-> st] : st \in BackendSteps(statuses)}
    \cup {[stepsKind |-> k, steps |-> <<>>] : k \in {"undefined", "string"}}

NoPathBody == [stepsKind |-> "undefined", steps |-> <<>>]
NoPath == [id |-> 0, steps |-> <<>>]

\* An answer of the backend to generateContent: the call fails, or it
\* returns a text; a text that parses to an object carries the object.
TextResponses(texts, bodies, noBody) ==
    {[fails |-> TRUE, text |-> <<>>, body |-> noBody]}
    \cup {[fails |-> FALSE, text |-> t, body |-> b] :
            t \in {x \in texts : parseJSON(TextOrEmptyObject(x)) = "object"},
            b \in bodies}
    \cup {[fails |-> FALSE, text |-> t, body |-> noBody] :
            t \in {x \in texts : parseJSON(TextOrEmptyObject(x)) # "object"}}

PathResponses == TextResponses(Texts, PathBodies(BackendStatus), NoPathBody)

\* The map with the spread written last: a status of the backend survives.
EnrichStepsSpreadLast(steps) ==
    [i \in DOMAIN steps |->
        [steps[i] EXCEPT !.status =
            IF steps[i].status # "none" THEN steps[i].status
            ELSE IF i = 1 THEN "active" ELSE "locked"]]

\* steps.map((s, index) => ({...s, status: index === 0 ? 'active' : 'locked'}))
EnrichSteps(steps) ==
    [i \in DOMAIN steps |->
        [steps[i] EXCEPT !.status = IF i = 1 THEN "active" ELSE "locked"]]

\* generateLearningPath reading (pathData.steps || []): an object without a
\* steps array yields a path without steps.
generateLearningPathDefaultSteps(resp, now) ==
    LET parsed == parseJSON(TextOrEmptyObject(resp.text))
        rejects == [rejected |-> TRUE, path |-> NoPath]
    IN CASE resp.fails -> rejects
         [] parsed = "throw" -> rejects
         [] parsed \in {"null", "primitive"} -> rejects
         [] parsed = "emptyObject" \/ resp.body.stepsKind # "array" ->
             [rejected |-> FALSE, path |-> [id |-> now, steps |-> <<>>]]
         [] OTHER ->
             [rejected |-> FALSE,
              path |-> [id |-> now, steps |-> EnrichSteps(resp.body.steps)]]

\* generateLearningPath: every failure inside the try block is rethrown.
generateLearningPath(resp, now) ==
    LET parsed == parseJSON(TextOrEmptyObject(resp.text))
        rejects == [rejected |-> TRUE, path |-> NoPath]
    IN CASE resp.fails -> rejects
         [] parsed = "throw" -> rejects
         \* null.id = ..., (7).steps.map and ({}).steps.map are TypeErrors
         [] parsed \in {"null", "primitive", "emptyObject"} -> rejects
         [] resp.body.stepsKind # "array" -> rejects
         [] OTHER ->
             [rejected |-> FALSE,
              path |-> [id |-> now, steps |-> EnrichSteps(resp.body.steps)]]

(***************************************************************************)
(* Daily challenges.                                                       *)
(***************************************************************************)
\* The design object the backend may return: each field present or not.
TimeValues == {Undefined, Num(0), Num(15)}

DesignBodies ==
    {[title |-> t, theme |-> th, description |-> Str("Model a gear."),
      imagePrompt |-> p, goldTime |-> g, silverTime |-> sv, bronzeTime |-> bz] :
        t \in {Str("Gear"), Undefined}, th \in {Str("Mechanical"), Undefined},
        p \in {Str("A steel gear"), Undefined},
        g \in TimeValues, sv \in TimeValues, bz \in TimeValues}

\* {} and the properties of a primitive: every field undefined.
EmptyDesign ==
    [title |-> Undefined, theme |-> Undefined, description |-> Undefined,
     imagePrompt |-> Undefined, goldTime |-> Undefined, silverTime |-> Undefined,
     bronzeTime |-> Undefined]

FallbackDesign ==
    [title |-> Str("Speed Modeling"), theme |-> Str("Abstract"),
     description |-> Str("Create a simple abstract shape that demonstrates flow."),
     imagePrompt |-> Str("Abstract 3d shape floating in void, colorful"),
     goldTime |-> Num(10), silverTime |-> Num(20), bronzeTime |-> Num(30)]

DesignResponses == TextResponses(Texts, DesignBodies, EmptyDesign)

\* The answer of the image model: the call fails, or it returns a list of
\* parts, each a text part or an inline image with its base64 data.
ImagePart == {[inline |-> FALSE, data |-> ""], [inline |-> TRUE, data |-> "iVBOR"],
              [inline |-> TRUE, data |-> ""]}

ImageResponses ==
    {[fails |-> TRUE, parts |-> <<>>]}
    \cup {[fails |-> FALSE, parts |-> ps] : ps \in SeqsUpTo(ImagePart, MaxParts)}

\* A URL is its fixed prefix followed by its variable part; "" is <<>>.
DataPrefix == "data:image/png;base64,"
PlaceholderPrefix == "https://placehold.co/600x600/20BEFF/ffffff?text="

\* String(v) of a scalar, for the values the model uses.
StringOf(v) == IF v.type = "string" THEN v.s ELSE "undefined"

\* encodeURIComponent on the titles of the model: a space becomes %20.
encodeURIComponent(str) ==
    CASE str = "Speed Modeling" -> "Speed%20Modeling"
      [] OTHER -> str

\* The design stage with the parse after its try block: a text parseJSON
\* rejects leaves no design.
DesignStageParseUncaught(resp) ==
    LET parsed == parseJSON(TextOrEmptyObject(resp.text))
    IN CASE resp.fails -> [isNull |-> FALSE, d |-> FallbackDesign]
         [] parsed \in {"null", "throw"} -> [isNull |-> TRUE, d |-> EmptyDesign]
         [] parsed \in {"primitive", "emptyObject"} -> [isNull |-> FALSE, d |-> EmptyDesign]
         [] OTHER -> [isNull |-> FALSE, d |-> resp.body]

\* The design stage: lines 182-200.  The parse of "null" is null.
DesignStage(resp) ==
    LET parsed == parseJSON(TextOrEmptyObject(resp.text))
    IN CASE resp.fails \/ parsed = "throw" -> [isNull |-> FALSE, d |-> FallbackDesign]
         [] parsed = "null" -> [isNull |-> TRUE, d |-> EmptyDesign]
         [] parsed \in {"primitive", "emptyObject"} -> [isNull |-> FALSE, d |-> EmptyDesign]
         [] OTHER -> [isNull |-> FALSE, d |-> resp.body]

\* The first part with inlineData, 0 when there is none: lines 219-224.
FirstInline(parts) ==
    LET inl == {i \in DOMAIN parts : parts[i].inline}
    IN IF inl = {} THEN 0 ELSE CHOOSE i \in inl : \A j \in inl : i <= j

\* The image stage without the test of line 226: an answer without an image
\* part leaves the URL empty.
ImageStageNoEmptyTest(design, img) ==
    IF img.fails
    THEN <<PlaceholderPrefix, encodeURIComponent(StringOf(design.title))>>
    ELSE IF FirstInline(img.parts) # 0
    THEN <<DataPrefix, img.parts[FirstInline(img.parts)].data>>
    ELSE <<>>

\* The image stage: lines 202-231.
ImageStage(design, img) ==
    IF ~img.fails /\ FirstInline(img.parts) # 0
    THEN <<DataPrefix, img.parts[FirstInline(img.parts)].data>>
    ELSE <<PlaceholderPrefix, encodeURIComponent(StringOf(design.title))>>

NoChallenge ==
    [id |-> 0, title |-> Undefined, theme |-> Undefined, description |-> Undefined,
     referenceImageUrl |-> <<>>, goldTime |-> Undefined, silverTime |-> Undefined,
     bronzeTime |-> Undefined]

\* generateDailyChallenge.  With a null design, design.imagePrompt throws
\* inside the image try block and design.title throws again in its catch.
\* imageCalled and imagePrompt record the request to the image model.
generateDailyChallenge(designResp, img, now) ==
    LET stage == DesignStage(designResp)
        design == stage.d
    IN IF stage.isNull
       THEN [rejected |-> TRUE, challenge |-> NoChallenge,
             imageCalled |-> FALSE, imagePrompt |-> Undefined]
       ELSE [rejected |-> FALSE,
             challenge |->
                 [id |-> now, title |-> design.title, theme |-> design.theme,
                  description |-> design.description,
                  referenceImageUrl |-> ImageStage(design, img),
                  goldTime |-> design.goldTime, silverTime |-> design.silverTime,
                  bronzeTime |-> design.bronzeTime],
             imageCalled |-> TRUE, imagePrompt |-> design.imagePrompt]

(***************************************************************************)
(* Submission review.                                                      *)
(***************************************************************************)
\* An uploaded file: the FileReader loads it or reports an error.
Files == {[readable |-> TRUE], [readable |-> FALSE]}

ReviewBodies ==
    {[passed |-> ps, feedback |-> fb] :
        ps \in {Bool(TRUE), Bool(FALSE), Undefined},
        fb \in {Str("Clean topology."), Undefined}}

EmptyReview == [passed |-> Undefined, feedback |-> Undefined]

ReviewResponses == TextResponses(Texts, ReviewBodies, EmptyReview)

SafeReview ==
    [passed |-> Bool(FALSE),
     feedback |-> Str("AI Review service unavailable. Please try again.")]

\* fileToBase64: the promise rejects on reader.onerror.
fileToBase64(file) == IF file.readable THEN "resolved" ELSE "rejected"

\* reviewSubmission: fileToBase64 is awaited before the try block; the
\* parsed value is returned as it is (isNull for the parse of "null").
reviewSubmission(file, resp) ==
    LET parsed == parseJSON(TextOrEmptyObject(resp.text))
    IN CASE fileToBase64(file) = "rejected" ->
               [rejected |-> TRUE, isNull |-> FALSE, value |-> EmptyReview]
         [] resp.fails \/ parsed = "throw" ->
               [rejected |-> FALSE, isNull |-> FALSE, value |-> SafeReview]
         [] parsed = "null" ->
               [rejected |-> FALSE, isNull |-> TRUE, value |-> EmptyReview]
         [] parsed \in {"primitive", "emptyObject"} ->
               [rejected |-> FALSE, isNull |-> FALSE, value |-> EmptyReview]
         [] OTHER ->
               [rejected |-> FALSE, isNull |-> FALSE, value |-> resp.body]

(***************************************************************************)
(* Challenge evaluation.                                                   *)
(***************************************************************************)
\* The reference URLs generateDailyChallenge produces.
RefUrls == {<<DataPrefix, "iVBOR">>, <<DataPrefix, "">>, <<PlaceholderPrefix, "Gear">>}

EvaluationBodies ==
    {[passed |-> ps, score |-> sc, feedback |-> fb] :
        ps \in {Bool(TRUE), Bool(FALSE), Undefined},
        sc \in {Num(90), Undefined},
        fb \in {Str("Close match."), Undefined}}

EmptyEvaluation == [passed |-> Undefined, score |-> Undefined, feedback |-> Undefined]

EvaluationResponses == TextResponses(Texts, EvaluationBodies, EmptyEvaluation)

OptimisticEvaluation ==
    [passed |-> Bool(TRUE), score |-> Num(85),
     feedback |-> Str("Good effort! (Auto-passed due to network)")]

\* referenceImageUrl.startsWith('data:')
StartsWithData(url) == url # <<>> /\ url[1] = DataPrefix

\* referenceImageUrl.includes(',') ? split(',')[1] : referenceImageUrl; of
\* the two prefixes only the data: prefix holds a comma.
RefData(url) == IF url[1] = DataPrefix THEN <<url[2]>> ELSE url

UserPart == [kind |-> "inlineData", of |-> "user", data |-> <<"userBase64">>]
JudgePart == [kind |-> "text", of |-> "prompt", data |-> <<"Judge the submission.">>]

\* The parts with the reference image pushed without the test of line 271.
EvaluationPartsAlwaysReference(url) ==
    <<[kind |-> "inlineData", of |-> "reference", data |-> RefData(url)]>>
    \o <<UserPart, JudgePart>>

\* The parts of the request: lines 269-276.
EvaluationParts(url) ==
    (IF StartsWithData(url)
     THEN <<[kind |-> "inlineData", of |-> "reference", data |-> RefData(url)]>>
     ELSE <<>>)
    \o <<UserPart, JudgePart>>

\* evaluateChallengeSubmission: fileToBase64 is awaited before the parts are
\* built and before the try block; the parsed value is returned as it is.
\* sent and parts record the request to the backend.
evaluateChallengeSubmission(url, file, resp) ==
    LET parsed == parseJSON(TextOrEmptyObject(resp.text))
        request == [sent |-> TRUE, parts |-> EvaluationParts(url)]
    IN CASE fileToBase64(file) = "rejected" ->
               [rejected |-> TRUE, isNull |-> FALSE, value |-> EmptyEvaluation,
                request |-> [sent |-> FALSE, parts |-> <<>>]]
         [] resp.fails \/ parsed = "throw" ->
               [rejected |-> FALSE, isNull |-> FALSE, value |-> OptimisticEvaluation,
                request |-> request]
         [] parsed = "null" ->
               [rejected |-> FALSE, isNull |-> TRUE, value |-> EmptyEvaluation,
                request |-> request]
         [] parsed \in {"primitive", "emptyObject"} ->
               [rejected |-> FALSE, isNull |-> FALSE, value |-> EmptyEvaluation,
                request |-> request]
         [] OTHER ->
               [rejected |-> FALSE, isNull |-> FALSE, value |-> resp.body,
                request |-> request]

(***************************************************************************)
(* Hints.                                                                  *)
(***************************************************************************)
\* The answer of the backend to the hint prompt: the call fails, or it
\* returns a response whose text is a string, empty or not, or undefined.
HintResponses ==
    {[fails |-> TRUE, text |-> Undefined]}
    \cup {[fails |-> FALSE, text |-> t] :
            t \in {Undefined, Str(""), Str("Bevel the rim with Ctrl+B.")}}

EmptyTextHint == Str("Try breaking the shape down into primitive blocks first.")
FailedCallHint == Str("Check your topology flow before adding details.")

\* generateHint returning response.text without the || of line 343.
generateHintNoEmptyFallback(resp) ==
    [rejected |-> FALSE, calls |-> 1,
     value |-> IF resp.fails THEN FailedCallHint ELSE resp.text]

\* generateHint: one generateContent call inside the try block.
generateHint(resp) ==
    [rejected |-> FALSE, calls |-> 1,
     value |-> IF resp.fails THEN FailedCallHint ELSE OrElse(resp.text, EmptyTextHint)]

(***************************************************************************)
(* The service specification: one call at a time.  The call is kept with  *)
(* its input and its outcome until the caller takes the outcome.           *)
(***************************************************************************)
VARIABLES lpCall, dcCall, rvCall, evCall, hintCall, pjCall, csCall

svars == <<lpCall, dcCall, rvCall, evCall, hintCall, pjCall, csCall>>

NoTextResponse(noBody) == [fails |-> TRUE, text |-> <<>>, body |-> noBody]

IdleLp ==
    [called |-> FALSE, in |-> NoTextResponse(NoPathBody),
     out |-> [rejected |-> TRUE, path |-> NoPath]]

IdleDc ==
    [called |-> FALSE, design |-> NoTextResponse(EmptyDesign),
     image |-> [fails |-> TRUE, parts |-> <<>>],
     out |-> [rejected |-> TRUE, challenge |-> NoChallenge,
              imageCalled |-> FALSE, imagePrompt |-> Undefined]]

IdleRv ==
    [called |-> FALSE, file |-> [readable |-> FALSE],
     in |-> NoTextResponse(EmptyReview),
     out |-> [rejected |-> TRUE, isNull |-> FALSE, value |-> EmptyReview]]

IdleEv ==
    [called |-> FALSE, url |-> <<>>, file |-> [readable |-> FALSE],
     in |-> NoTextResponse(EmptyEvaluation),
     out |-> [rejected |-> TRUE, isNull |-> FALSE, value |-> EmptyEvaluation,
              request |-> [sent |-> FALSE, parts |-> <<>>]]]

IdleHint ==
    [called |-> FALSE, in |-> [fails |-> TRUE, text |-> Undefined],
     out |-> [rejected |-> TRUE, calls |-> 0, value |-> Undefined]]

IdlePj == [called |-> FALSE, text |-> <<>>, out |-> "throw"]

(***************************************************************************)
(* Path progression: App.handleStepComplete.                               *)
(***************************************************************************)
\* findIndex(s => s.id === stepId), counted from 1; 0 when no step matches
\* (the -1 of findIndex).
FindIndex(steps, stepId) ==
    LET hits == {i \in DOMAIN steps : steps[i].id = stepId}
    IN IF hits = {} THEN 0 ELSE CHOOSE i \in hits : \A k \in hits : i <= k

\* The steps of the active path after handleStepComplete(stepId): every
\* step with that id is completed, then the step after the first match is
\* set active when the match is not the last step.
CompleteSteps(steps, stepId) ==
    LET updatedSteps ==
            [i \in DOMAIN steps |->
                IF steps[i].id = stepId
                THEN [steps[i] EXCEPT !.status = "completed"] ELSE steps[i]]
        completedIndex == FindIndex(updatedSteps, stepId)
    IN IF completedIndex < Len(updatedSteps)
       THEN [updatedSteps EXCEPT ![completedIndex + 1].status = "active"]
       ELSE updatedSteps

\* updatedSteps.find(s => s.id === stepId)?.xpReward || 50
DefaultXp == 50

XpFor(steps, stepId) ==
    LET found == FindIndex(steps, stepId)
    IN IF found = 0 THEN DefaultXp
       ELSE OrElse(steps[found].xpReward, Num(DefaultXp)).n

\* The xp the updater awards: once for each path whose id is activePathId.
RECURSIVE XpAwarded(_, _, _)
XpAwarded(ps, pathId, stepId) ==
    IF ps = <<>> THEN 0
    ELSE (IF Head(ps).id = pathId THEN XpFor(Head(ps).steps, stepId) ELSE 0)
         + XpAwarded(Tail(ps), pathId, stepId)

\* handleStepComplete without the test path.id !== activePathId.
handleStepCompleteEveryPath(u, ps, pathId, stepId) ==
    IF pathId = 0 \/ ~u.present THEN [user |-> u, paths |-> ps]
    ELSE [user |-> [u EXCEPT !.xp = u.xp + XpAwarded(ps, pathId, stepId)],
          paths |-> [k \in DOMAIN ps |->
                        [ps[k] EXCEPT !.steps = CompleteSteps(ps[k].steps, stepId)]]]

\* handleStepComplete on the state (user, paths, activePathId).
handleStepComplete(u, ps, pathId, stepId) ==
    IF pathId = 0 \/ ~u.present THEN [user |-> u, paths |-> ps]
    ELSE [user |-> [u EXCEPT !.xp = u.xp + XpAwarded(ps, pathId, stepId)],
          paths |-> [k \in DOMAIN ps |->
                        IF ps[k].id # pathId THEN ps[k]
                        ELSE [ps[k] EXCEPT !.steps = CompleteSteps(ps[k].steps, stepId)]]]

(***************************************************************************)
(* The application state: App, Onboarding and PathView.                    *)
(***************************************************************************)
VARIABLES
    user,          \* App: the profile, present once onboarding completed
    paths,         \* App: the learning paths, in the order they were added
    activePathId,  \* App: 0 for null
    view,          \* App: "onboarding", "dashboard" or "path"
    now,           \* the clock Date.now() reads for the next path id
    loading,       \* Onboarding: a generateLearningPath call is awaited
    lastSubmit,    \* the last handleSubmit: the backend's answer, the outcome
    selectedStep,  \* PathView: the id of the selected step, 0 for none
    feedback,      \* PathView: "none" (null), "passed" or "failed"
    uploading,     \* PathView: a reviewSubmission call is awaited
    reviewed       \* PathView: the step the awaited or last review was given, 0 for none

avars == <<user, paths, activePathId, view, now, loading, lastSubmit,
           selectedStep, feedback, uploading, reviewed>>

\* The challenge session: App, Dashboard and ActiveChallengeView.
VARIABLES
    activeChallenge,     \* App: the challenge, NoChallenge for null
    isChallengeStarted,  \* App
    loadingChallenge,    \* Dashboard: a generateDailyChallenge call is awaited
    elapsedSeconds,      \* ActiveChallengeView
    penaltySeconds,      \* ActiveChallengeView
    hints,               \* ActiveChallengeView: the list, as its length and last entry
    loadingHint,         \* ActiveChallengeView: a generateHint call is awaited
    challengeUploading,  \* ActiveChallengeView: uploading
    submissionResult,    \* ActiveChallengeView: "none" (null), "passed" or "failed"
    intervals,           \* the live timers setInterval created and nothing cleared
    lastDismiss          \* how the view was last dismissed: "none", "finish", "cancel"

cvars == <<activeChallenge, isChallengeStarted, loadingChallenge, elapsedSeconds,
           penaltySeconds, hints, loadingHint, challengeUploading, submissionResult,
           intervals, lastDismiss>>

\* The chat panel: AIChat.
VARIABLES
    chatDefinition,  \* which of the two definitions of AIChat is the component
    isChatOpen,      \* App: the panel is open
    messages,        \* the transcript
    input,           \* the textarea: "", "blank" (white space only) or "text"
    pastedImage,     \* an image is attached
    mode,            \* "chat" or "edit"
    isTyping,        \* the response-pending flag
    inFlight,        \* the sends whose request or stream has not ended
    chatSession,     \* chatSessionRef: 0 for null, else the number of the session
    clock            \* the reading of Date.now()

tvars == <<chatDefinition, isChatOpen, messages, input, pastedImage, mode, isTyping,
           inFlight, chatSession, clock>>

NoUser == [present |-> FALSE, xp |-> 0]

AppInit ==
    /\ user = NoUser
    /\ paths = <<>>
    /\ activePathId = 0
    /\ view = "onboarding"
    /\ now = 1
    /\ loading = FALSE
    /\ lastSubmit = [kind |-> "none", rejected |-> FALSE]
    /\ selectedStep = 0
    /\ feedback = "none"
    /\ uploading = FALSE
    /\ reviewed = 0

\* paths.find(p => p.id === activePathId) || null, as an index; 0 for null.
ActivePathIndex ==
    LET hits == {k \in DOMAIN paths : paths[k].id = activePathId}
    IN IF hits = {} THEN 0 ELSE CHOOSE k \in hits : \A m \in hits : k <= m

\* PathView is rendered: view === 'path' && activePath.
PathViewMounted == view = "path" /\ ActivePathIndex # 0

ActiveSteps == paths[ActivePathIndex].steps

\* steps.find(s => s.status === status): the position of the first such
\* step, 0 for undefined.
FindStatus(steps, status) ==
    LET found == {i \in DOMAIN steps : steps[i].status = status}
    IN IF found = {} THEN 0 ELSE CHOOSE i \in found : \A k \in found : i <= k

\* App: the step the chat context is derived from, 0 for undefined.
activeStep ==
    IF ActivePathIndex = 0 THEN 0
    ELSE IF FindStatus(ActiveSteps, "active") # 0
         THEN FindStatus(ActiveSteps, "active")
         ELSE FindStatus(ActiveSteps, "completed")

\* useState(path.steps.find(s => s.status === 'active') || path.steps[0])
InitialSelection(steps) ==
    LET act == {i \in DOMAIN steps : steps[i].status = "active"}
    IN IF act # {} THEN steps[CHOOSE i \in act : \A k \in act : i <= k].id
       ELSE IF steps # <<>> THEN steps[1].id
       ELSE 0

\* The status of the selected step as PathView shows it (the effect of
\* lines 59-65 keeps selectedStep in step with the path).
SelectedStatus == ActiveSteps[FindIndex(ActiveSteps, selectedStep)].status

\* What the backend answered to generateLearningPath, in the words of the
\* error taxonomy.
SubmitKind(resp) ==
    CASE resp.fails -> "transportFailure"
      [] parseJSON(TextOrEmptyObject(resp.text)) = "throw" -> "malformedResponse"
      [] parseJSON(TextOrEmptyObject(resp.text)) # "object" -> "missingSteps"
      [] resp.body.stepsKind # "array" -> "missingSteps"
      [] OTHER -> "path"

\* The answers of the backend during a session.
SessionStatus == {"none", "completed"}
SessionPathResponses == TextResponses(Texts, PathBodies(SessionStatus), NoPathBody)

\* Onboarding.handleSubmit up to its await.
SubmitStart ==
    /\ view = "onboarding" /\ ~loading
    /\ loading' = TRUE
    /\ UNCHANGED <<user, paths, activePathId, view, now, lastSubmit,
                   selectedStep, feedback, uploading, reviewed>>
    /\ UNCHANGED <<svars, cvars, tvars>>

\* App.handleOnboardingComplete.
handleOnboardingComplete(pathData) ==
    /\ user' = IF ~user.present THEN [present |-> TRUE, xp |-> 0] ELSE user
    /\ paths' = Append(paths, pathData)
    /\ view' = "dashboard"

\* What a generateLearningPath call at clock value t can come to, over every
\* answer of the backend: the kind of answer and the outcome of the call.
SubmitOutcomes(t) ==
    {[kind |-> SubmitKind(resp), result |-> generateLearningPath(resp, t)] :
        resp \in SessionPathResponses}

\* Onboarding.handleSubmit after its await: onComplete with the path, or
\* the alert of the catch block.
SubmitSettle ==
    /\ view = "onboarding" /\ loading
    /\ \E o \in SubmitOutcomes(now) :
        /\ lastSubmit' = [kind |-> o.kind, rejected |-> o.result.rejected]
        /\ IF o.result.rejected
           THEN UNCHANGED <<user, paths, view, now>>
           ELSE handleOnboardingComplete(o.result.path) /\ now' = now + 1
    /\ loading' = FALSE
    /\ UNCHANGED <<activePathId, selectedStep, feedback, uploading, reviewed>>
    /\ UNCHANGED <<svars, cvars, tvars>>

\* Dashboard: onAddPath.
AddPath ==
    /\ view = "dashboard" /\ user.present
    /\ Len(paths) < MaxPaths
    /\ view' = "onboarding"
    /\ UNCHANGED <<user, paths, activePathId, now, loading, lastSubmit,
                   selectedStep, feedback, uploading, reviewed>>
    /\ UNCHANGED <<svars, cvars, tvars>>

\* PathView is mounted on a path: its state starts afresh.
MountPathView(steps) ==
    /\ selectedStep' = InitialSelection(steps)
    /\ feedback' = "none"
    /\ uploading' = FALSE
    /\ reviewed' = 0

\* Dashboard: onNavigate('path', path.id), App.navigateToPath.
NavigateToPath ==
    /\ view = "dashboard" /\ user.present
    /\ \E k \in DOMAIN paths :
        /\ activePathId' = paths[k].id
        /\ MountPathView(paths[k].steps)
    /\ view' = "path"
    /\ UNCHANGED <<user, paths, now, loading, lastSubmit>>
    /\ UNCHANGED <<svars, cvars, tvars>>

\* The sidebar's Current Path button: activePathId && setView('path').
ShowCurrentPath ==
    /\ view = "dashboard" /\ activePathId # 0
    /\ view' = "path"
    /\ MountPathView(ActiveSteps)
    /\ UNCHANGED <<user, paths, activePathId, now, loading, lastSubmit>>
    /\ UNCHANGED <<svars, cvars, tvars>>

\* PathView onBack and the sidebar's Dashboard button: PathView unmounts,
\* and a review still awaited finds no component to update.
BackToDashboard ==
    /\ view = "path"
    /\ view' = "dashboard"
    /\ selectedStep' = 0 /\ feedback' = "none" /\ uploading' = FALSE /\ reviewed' = 0
    /\ UNCHANGED <<user, paths, activePathId, now, loading, lastSubmit>>
    /\ UNCHANGED <<svars, cvars, tvars>>

\* PathView: a click on a step of the sidebar list that is not locked.
SelectStep ==
    /\ PathViewMounted
    /\ \E i \in DOMAIN ActiveSteps :
        /\ ActiveSteps[i].status # "locked"
        /\ ActiveSteps[i].id # selectedStep
        /\ selectedStep' = ActiveSteps[i].id
    /\ UNCHANGED <<user, paths, activePathId, view, now, loading, lastSubmit,
                   feedback, uploading, reviewed>>
    /\ UNCHANGED <<svars, cvars, tvars>>

\* The submission area shows the upload control (lines 291-349).
UploadShown ==
    /\ selectedStep # 0
    /\ ~(SelectedStatus = "completed" /\ feedback = "none")
    /\ feedback # "passed"

\* PathView.handleFileUpload up to its await.
UploadStart ==
    /\ PathViewMounted /\ UploadShown /\ ~uploading
    /\ uploading' = TRUE
    /\ reviewed' = selectedStep
    /\ feedback' = "none"
    /\ UNCHANGED <<user, paths, activePathId, view, now, loading, lastSubmit,
                   selectedStep>>
    /\ UNCHANGED <<svars, cvars, tvars>>

\* setFeedback of handleFileUpload: result.passed of a null result throws
\* and the catch block reports a failure, as it does for a rejection.
FeedbackOf(result) ==
    IF result.rejected \/ result.isNull THEN "failed"
    ELSE IF Truthy(result.value.passed) THEN "passed" ELSE "failed"

\* The feedback a review can end in, over every file and backend answer.
ReviewFeedbacks ==
    {FeedbackOf(reviewSubmission(file, resp)) : file \in Files, resp \in ReviewResponses}

\* PathView.handleFileUpload after its await.
ReviewSettle ==
    /\ PathViewMounted /\ uploading
    /\ \E fb \in ReviewFeedbacks : feedback' = fb
    /\ uploading' = FALSE
    /\ UNCHANGED reviewed
    /\ UNCHANGED <<user, paths, activePathId, view, now, loading, lastSubmit,
                   selectedStep>>
    /\ UNCHANGED <<svars, cvars, tvars>>

\* The selection handleAdvance makes: the step after the selected one in
\* the path as rendered, when there is one.
NextSelection(steps, stepId) ==
    LET idx == FindIndex(steps, stepId)
    IN IF idx # 0 /\ idx < Len(steps) THEN steps[idx + 1].id ELSE stepId

\* PathView.handleAdvance, the Continue button shown with a passed feedback.
Advance ==
    /\ PathViewMounted
    /\ selectedStep # 0
    /\ feedback = "passed"
    /\ LET done == handleStepComplete(user, paths, activePathId, selectedStep)
       IN /\ done.user.xp \in -MaxXp .. MaxXp
          /\ user' = done.user
          /\ paths' = done.paths
    /\ selectedStep' = NextSelection(ActiveSteps, selectedStep)
    /\ feedback' = "none"
    /\ reviewed' = 0
    /\ UNCHANGED <<activePathId, view, now, loading, lastSubmit, uploading>>
    /\ UNCHANGED <<svars, cvars, tvars>>

(***************************************************************************)
(* The challenge session: Dashboard.handleGenerateChallenge, the handlers  *)
(* App gives ChallengeModal and ActiveChallengeView, and the view itself.  *)
(***************************************************************************)
\* A session on the dashboard: onboarding completed with a path whose
\* steps array was empty.
OnboardedInit ==
    /\ user = [present |-> TRUE, xp |-> 0]
    /\ paths = <<[id |-> 1, steps |-> <<>>]>>
    /\ activePathId = 0
    /\ view = "dashboard"
    /\ now = 2
    /\ loading = FALSE
    /\ lastSubmit = [kind |-> "path", rejected |-> FALSE]
    /\ selectedStep = 0
    /\ feedback = "none"
    /\ uploading = FALSE
    /\ reviewed = 0

NoHints == [count |-> 0, last |-> Undefined]

ChallengeInit ==
    /\ activeChallenge = NoChallenge
    /\ isChallengeStarted = FALSE
    /\ loadingChallenge = FALSE
    /\ elapsedSeconds = 0
    /\ penaltySeconds = 0
    /\ hints = NoHints
    /\ loadingHint = FALSE
    /\ challengeUploading = FALSE
    /\ submissionResult = "none"
    /\ intervals = 0
    /\ lastDismiss = "none"

\* The answers of the design model during a session: a failed call, the
\* text null, and a design with every combination of times.
SessionDesignResponses ==
    {NoTextResponse(EmptyDesign), [fails |-> FALSE, text |-> <<"null">>, body |-> EmptyDesign]}
    \cup {[fails |-> FALSE, text |-> <<"{", "members", "}">>, body |-> d] :
            d \in {b \in DesignBodies :
                      /\ b.title = Str("Gear") /\ b.theme = Str("Mechanical")
                      /\ b.imagePrompt = Str("A steel gear")}}

\* The image model answers with an image.
SessionImageResponses ==
    {[fails |-> FALSE, parts |-> <<[inline |-> TRUE, data |-> "iVBOR"]>>]}

\* What a generateDailyChallenge call can come to.  The id of a challenge
\* is read by no handler, and the clock is left where it is.
ChallengeOutcomes ==
    {generateDailyChallenge(d, img, 2) :
        d \in SessionDesignResponses, img \in SessionImageResponses}

\* App renders the main layout with the Dashboard (lines 114-138, 181).
DashboardShown ==
    /\ view = "dashboard" /\ user.present
    /\ ~(isChallengeStarted /\ activeChallenge # NoChallenge)

\* App renders ActiveChallengeView (lines 114-124).
ChallengeViewMounted ==
    /\ view # "onboarding"
    /\ isChallengeStarted /\ activeChallenge # NoChallenge /\ user.present

\* Dashboard.handleGenerateChallenge up to its await; the button is
\* disabled while a call is awaited and lies under the preview modal.
GenerateChallengeStart ==
    /\ DashboardShown /\ activeChallenge = NoChallenge /\ ~loadingChallenge
    /\ loadingChallenge' = TRUE
    /\ UNCHANGED <<activeChallenge, isChallengeStarted, elapsedSeconds, penaltySeconds,
                   hints, loadingHint, challengeUploading, submissionResult,
                   intervals, lastDismiss>>
    /\ UNCHANGED <<avars, svars, tvars>>

\* Dashboard.handleGenerateChallenge after its await: onStartChallenge, or
\* the alert of the catch block.
GenerateChallengeSettle ==
    /\ DashboardShown /\ loadingChallenge
    /\ \E o \in ChallengeOutcomes :
        activeChallenge' = IF o.rejected THEN activeChallenge ELSE o.challenge
    /\ loadingChallenge' = FALSE
    /\ UNCHANGED <<isChallengeStarted, elapsedSeconds, penaltySeconds,
                   hints, loadingHint, challengeUploading, submissionResult,
                   intervals, lastDismiss>>
    /\ UNCHANGED <<avars, svars, tvars>>

\* The preview modal is shown (App.tsx line 216).
ModalShown == view # "onboarding" /\ activeChallenge # NoChallenge /\ ~isChallengeStarted

\* ChallengeModal onClose.
ModalClose ==
    /\ ModalShown
    /\ activeChallenge' = NoChallenge
    /\ UNCHANGED <<isChallengeStarted, loadingChallenge, elapsedSeconds, penaltySeconds,
                   hints, loadingHint, challengeUploading, submissionResult,
                   intervals, lastDismiss>>
    /\ UNCHANGED <<avars, svars, tvars>>

\* setInterval of the mount effect: one more live timer.
SetInterval(n) == n + 1

\* The cleanup without clearInterval: the timer stays.
ClearIntervalForgotten(n) == n

\* clearInterval(interval) of the effect's cleanup: one live timer fewer.
ClearInterval(n) == n - 1

\* The state of a view that has just been created (lines 13-18).
FreshViewState ==
    /\ elapsedSeconds' = 0
    /\ penaltySeconds' = 0
    /\ hints' = NoHints
    /\ loadingHint' = FALSE
    /\ challengeUploading' = FALSE
    /\ submissionResult' = "none"

\* ChallengeModal onStart: ActiveChallengeView is mounted and its effect runs.
ModalStart ==
    /\ ModalShown /\ user.present
    /\ isChallengeStarted' = TRUE
    /\ FreshViewState
    /\ intervals' = SetInterval(intervals)
    /\ lastDismiss' = "none"
    /\ UNCHANGED <<activeChallenge, loadingChallenge>>
    /\ UNCHANGED <<avars, svars, tvars>>

\* The callback of the interval: setElapsedSeconds(prev => prev + 1).
Tick ==
    /\ intervals > 0
    /\ elapsedSeconds < MaxElapsed
    /\ elapsedSeconds' = elapsedSeconds + 1
    /\ UNCHANGED <<activeChallenge, isChallengeStarted, loadingChallenge, penaltySeconds,
                   hints, loadingHint, challengeUploading, submissionResult,
                   intervals, lastDismiss>>
    /\ UNCHANGED <<avars, svars, tvars>>

\* totalSeconds with the penalty taken off the elapsed time.
TotalSecondsPenaltyRefunded == elapsedSeconds - penaltySeconds

\* totalSeconds (line 27).
TotalSeconds == elapsedSeconds + penaltySeconds

\* The arithmetic of a time that is no number gives NaN.
NaN == [type |-> "number", n |-> 0, s |-> "NaN", b |-> FALSE]

\* totalSeconds / 60 > minutes; a comparison with undefined is false.
ExceedsMinutes(totalSeconds, minutes) ==
    minutes.type = "number" /\ totalSeconds > minutes.n * 60

\* minutes * 60 - totalSeconds
SecondsUntil(minutes, totalSeconds) ==
    IF minutes.type = "number" THEN Num(minutes.n * 60 - totalSeconds) ELSE NaN

\* The tier with >= in the place of > in the three tests.
currentTierAtCutoff(challenge, totalSeconds) ==
    IF challenge.bronzeTime.type = "number" /\ totalSeconds >= challenge.bronzeTime.n * 60
    THEN "FAIL"
    ELSE IF challenge.silverTime.type = "number" /\ totalSeconds >= challenge.silverTime.n * 60
    THEN "BRONZE"
    ELSE IF challenge.goldTime.type = "number" /\ totalSeconds >= challenge.goldTime.n * 60
    THEN "SILVER"
    ELSE "GOLD"

\* currentTier (lines 66-82): of the three tests the last one that holds
\* decides.
currentTier(challenge, totalSeconds) ==
    IF ExceedsMinutes(totalSeconds, challenge.bronzeTime) THEN "FAIL"
    ELSE IF ExceedsMinutes(totalSeconds, challenge.silverTime) THEN "BRONZE"
    ELSE IF ExceedsMinutes(totalSeconds, challenge.goldTime) THEN "SILVER"
    ELSE "GOLD"

\* timeToNext without the assignment of line 81.
timeToNextNoFailReset(challenge, totalSeconds) ==
    IF ExceedsMinutes(totalSeconds, challenge.silverTime)
    THEN SecondsUntil(challenge.bronzeTime, totalSeconds)
    ELSE IF ExceedsMinutes(totalSeconds, challenge.goldTime)
    THEN SecondsUntil(challenge.silverTime, totalSeconds)
    ELSE SecondsUntil(challenge.goldTime, totalSeconds)

\* timeToNext (lines 66-82).
timeToNext(challenge, totalSeconds) ==
    IF ExceedsMinutes(totalSeconds, challenge.bronzeTime) THEN Num(0)
    ELSE IF ExceedsMinutes(totalSeconds, challenge.silverTime)
    THEN SecondsUntil(challenge.bronzeTime, totalSeconds)
    ELSE IF ExceedsMinutes(totalSeconds, challenge.goldTime)
    THEN SecondsUntil(challenge.silverTime, totalSeconds)
    ELSE SecondsUntil(challenge.goldTime, totalSeconds)

\* formatTime: the minutes and the seconds of the MM:SS text.
formatTime(totalSecs) == <<totalSecs \div 60, totalSecs % 60>>

\* The Next Cutoff pill: timeToNext > 0 ? formatTime(timeToNext) : '00:00'.
NextCutoffShown(challenge, totalSeconds) ==
    LET left == timeToNext(challenge, totalSeconds)
    IN IF left # NaN /\ left.n > 0 THEN formatTime(left.n) ELSE <<0, 0>>

\* The result overlay lies over the controls of the view (line 189).
ControlsShown == ChallengeViewMounted /\ submissionResult = "none"

HintPenalty == 120

\* The penalty raised only for the first two hints.
PenaltyAfterHintUpToTwo(penalty) ==
    IF penalty < 2 * HintPenalty THEN penalty + HintPenalty ELSE penalty

\* setPenaltySeconds(prev => prev + 120)
PenaltyAfterHint(penalty) == penalty + HintPenalty

\* handleRequestHint up to its await.
RequestHint ==
    /\ ControlsShown /\ ~loadingHint
    /\ hints.count < MaxHints
    /\ loadingHint' = TRUE
    /\ penaltySeconds' = PenaltyAfterHint(penaltySeconds)
    /\ UNCHANGED <<activeChallenge, isChallengeStarted, loadingChallenge, elapsedSeconds,
                   hints, challengeUploading, submissionResult, intervals, lastDismiss>>
    /\ UNCHANGED <<avars, svars, tvars>>

\* The hint handleRequestHint appends: the one generateHint resolves to, or
\* its own text when generateHint rejects.
HintAppended(result) ==
    IF result.rejected THEN Str("Focus on the main silhouette first.") ELSE result.value

HintsAppended == {HintAppended(generateHint(resp)) : resp \in HintResponses}

\* handleRequestHint after its await.
HintSettle ==
    /\ ChallengeViewMounted /\ loadingHint
    /\ \E hint \in HintsAppended : hints' = [count |-> hints.count + 1, last |-> hint]
    /\ loadingHint' = FALSE
    /\ UNCHANGED <<activeChallenge, isChallengeStarted, loadingChallenge, elapsedSeconds,
                   penaltySeconds, challengeUploading, submissionResult, intervals,
                   lastDismiss>>
    /\ UNCHANGED <<avars, svars, tvars>>

\* ActiveChallengeView.handleFileUpload up to its await.
ChallengeUploadStart ==
    /\ ControlsShown /\ ~challengeUploading
    /\ activeChallenge.referenceImageUrl # <<>>
    /\ challengeUploading' = TRUE
    /\ UNCHANGED <<activeChallenge, isChallengeStarted, loadingChallenge, elapsedSeconds,
                   penaltySeconds, hints, loadingHint, submissionResult, intervals,
                   lastDismiss>>
    /\ UNCHANGED <<avars, svars, tvars>>

\* What handleFileUpload does with the outcome: the alert of the catch
\* block, setSubmissionResult(null), or a result shown as passed or failed.
EvaluationVerdict(result) ==
    IF result.rejected THEN "rejected"
    ELSE IF result.isNull THEN "none"
    ELSE IF Truthy(result.value.passed) THEN "passed" ELSE "failed"

EvaluationVerdicts ==
    {EvaluationVerdict(evaluateChallengeSubmission(url, file, resp)) :
        url \in RefUrls, file \in Files, resp \in EvaluationResponses}

\* ActiveChallengeView.handleFileUpload after its await.
ChallengeUploadSettle ==
    /\ ChallengeViewMounted /\ challengeUploading
    /\ \E verdict \in EvaluationVerdicts :
        submissionResult' = IF verdict = "rejected" THEN submissionResult ELSE verdict
    /\ challengeUploading' = FALSE
    /\ UNCHANGED <<activeChallenge, isChallengeStarted, loadingChallenge, elapsedSeconds,
                   penaltySeconds, hints, loadingHint, intervals, lastDismiss>>
    /\ UNCHANGED <<avars, svars, tvars>>

\* The Try Again button of the overlay: setSubmissionResult(null).
TryAgain ==
    /\ ChallengeViewMounted /\ submissionResult = "failed"
    /\ submissionResult' = "none"
    /\ UNCHANGED <<activeChallenge, isChallengeStarted, loadingChallenge, elapsedSeconds,
                   penaltySeconds, hints, loadingHint, challengeUploading, intervals,
                   lastDismiss>>
    /\ UNCHANGED <<avars, svars, tvars>>

\* The view leaves the screen: App sets isChallengeStarted and
\* activeChallenge, the view unmounts, its cleanup runs and its state goes.
DismissChallenge(how) ==
    /\ isChallengeStarted' = FALSE
    /\ activeChallenge' = NoChallenge
    /\ FreshViewState
    /\ intervals' = ClearInterval(intervals)
    /\ lastDismiss' = how
    /\ UNCHANGED loadingChallenge
    /\ UNCHANGED <<avars, svars, tvars>>

\* The Claim Reward button: onFinish, App.handleChallengeFinish.
ClaimReward ==
    /\ ChallengeViewMounted /\ submissionResult = "passed"
    /\ DismissChallenge("finish")

\* Quit, or Give Up on the overlay: onCancel with the confirm accepted.
CancelChallenge ==
    /\ ChallengeViewMounted /\ submissionResult \in {"none", "failed"}
    /\ DismissChallenge("cancel")

ChallengeNext ==
    \/ GenerateChallengeStart
    \/ GenerateChallengeSettle
    \/ ModalClose
    \/ ModalStart
    \/ Tick
    \/ RequestHint
    \/ HintSettle
    \/ ChallengeUploadStart
    \/ ChallengeUploadSettle
    \/ TryAgain
    \/ ClaimReward
    \/ CancelChallenge

(***************************************************************************)
(* The chat panel: AIChat.                                                 *)
(***************************************************************************)
\* A message of the transcript: its id, who wrote it, what it is, and its
\* text.  A text is a sequence of fragments; every message but the
\* placeholder of a stream starts with a text of its own.
Message(id, role, kind) ==
    [id |-> id, role |-> role, kind |-> kind,
     text |-> IF kind = "placeholder" THEN <<>> ELSE <<kind>>]

\* The id 'init' of the greeting: no reading of the clock.
InitId == 0

\* The state of a panel that has just been created and mounted (lines
\* 18-37): the greeting, empty controls, and the session the mount effect
\* made, the first one.
FreshChatState ==
    /\ isChatOpen = FALSE
    /\ messages = <<Message(InitId, "model", "init")>>
    /\ input = ""
    /\ pastedImage = FALSE
    /\ mode = "chat"
    /\ isTyping = FALSE
    /\ inFlight = <<>>
    /\ chatSession = 1
    /\ clock = 1

\* The component App imports from components/AIChat.
ChatInit == chatDefinition = "AIChat" /\ FreshChatState

\* The sources hold two definitions of AIChat: either can be the component.
ChatPanelInit == chatDefinition \in {"AIChat", "earlier"} /\ FreshChatState

\* The panel shows its textarea and buttons: AIChat is rendered by the main
\* layout and isOpen holds.
ChatPanelShown == DashboardShown /\ isChatOpen

\* onToggle: setIsChatOpen(!isChatOpen).  The component stays mounted: a
\* closed panel renders its button only.
ToggleChat ==
    /\ DashboardShown
    /\ isChatOpen' = ~isChatOpen
    /\ UNCHANGED <<chatDefinition, messages, input, pastedImage, mode, isTyping, inFlight,
                   chatSession, clock>>
    /\ UNCHANGED <<avars, svars, cvars>>

\* Date.now(): a reading of the clock, not before the last one.
Readings == clock .. MaxClock

\* onChange of the textarea: setInput.
TypeInput ==
    /\ ChatPanelShown
    /\ \E v \in {"", "blank", "text"} : v # input /\ input' = v
    /\ UNCHANGED <<chatDefinition, isChatOpen, messages, pastedImage, mode, isTyping,
                   inFlight, chatSession, clock>>
    /\ UNCHANGED <<avars, svars, cvars>>

\* handlePaste with an image on the clipboard, once the reader has loaded it.
PasteImage ==
    /\ ChatPanelShown
    /\ pastedImage' = TRUE
    /\ mode' = "chat"
    /\ UNCHANGED <<chatDefinition, isChatOpen, messages, input, isTyping, inFlight,
                   chatSession, clock>>
    /\ UNCHANGED <<avars, svars, cvars>>

\* The x on the preview: setPastedImage(null), and the effect resets mode.
RemoveImage ==
    /\ ChatPanelShown /\ pastedImage
    /\ pastedImage' = FALSE
    /\ mode' = "chat"
    /\ UNCHANGED <<chatDefinition, isChatOpen, messages, input, isTyping, inFlight,
                   chatSession, clock>>
    /\ UNCHANGED <<avars, svars, cvars>>

\* The Analyze and Magic Edit buttons, shown with a pasted image.
SetMode ==
    /\ ChatPanelShown /\ pastedImage /\ chatDefinition = "AIChat"
    /\ mode' = IF mode = "chat" THEN "edit" ELSE "chat"
    /\ UNCHANGED <<chatDefinition, isChatOpen, messages, input, pastedImage, isTyping,
                   inFlight, chatSession, clock>>
    /\ UNCHANGED <<avars, svars, cvars>>

\* !input.trim() && !pastedImage does not hold.
HasContent == input = "text" \/ pastedImage

\* The guard of handleSend: line 72 of AIChat, line 217 of the earlier
\* definition, which tests the chat session there.
SendAccepted ==
    IF chatDefinition = "AIChat"
    THEN HasContent /\ ~isTyping
    ELSE HasContent /\ chatSession # 0

\* The flow a send takes: the earlier definition has the stream only.
FlowOf(currentMode, currentImage) ==
    IF chatDefinition = "AIChat" /\ currentMode = "edit" /\ currentImage
    THEN "edit" ELSE "stream"

\* A send that awaits its backend: the flow, the reading of the clock when
\* it was made, and the locals of the stream flow.
Pending(flow, sentAt) ==
    [flow |-> flow, stage |-> "request", sentAt |-> sentAt, botMsgId |-> 0,
     chunks |-> <<>>, fullResponse |-> <<>>]

\* handleSend up to its first await.  AIChat tests the chat session inside
\* the try block of the stream flow: the return runs the finally block.
handleSend ==
    IF SendAccepted
    THEN /\ Len(messages) + 2 * Len(inFlight) + 3 <= MaxMessages
         /\ \E reading \in Readings :
              /\ clock' = reading
              /\ messages' = Append(messages, Message(reading, "user", "user"))
              /\ IF FlowOf(mode, pastedImage) = "stream" /\ chatSession = 0
                 THEN isTyping' = FALSE /\ inFlight' = inFlight
                 ELSE /\ isTyping' = TRUE
                      /\ inFlight' = Append(inFlight,
                                            Pending(FlowOf(mode, pastedImage), reading))
         /\ input' = ""
         /\ pastedImage' = FALSE
         /\ mode' = "chat"
         /\ UNCHANGED <<chatDefinition, isChatOpen, chatSession>>
    ELSE UNCHANGED tvars

\* The Send button: disabled={(!input.trim() && !pastedImage) || isTyping}.
ClickSend ==
    /\ ChatPanelShown
    /\ HasContent /\ ~isTyping
    /\ handleSend
    /\ UNCHANGED <<avars, svars, cvars>>

\* handleKeyPress with Enter and no shift.
PressEnter ==
    /\ ChatPanelShown
    /\ handleSend
    /\ UNCHANGED <<avars, svars, cvars>>

\* The sequence without its i-th element.
RemoveAt(q, i) == SubSeq(q, 1, i - 1) \o SubSeq(q, i + 1, Len(q))

\* The finally block: setIsTyping(false).
FinallyNotCleared(typing) == typing

\* The finally block: setIsTyping(false).
Finally(typing) == FALSE

\* The end of a send: the finally block.
SendEnds(i) ==
    /\ isTyping' = Finally(isTyping)
    /\ inFlight' = RemoveAt(inFlight, i)
    /\ UNCHANGED <<chatDefinition, isChatOpen, input, pastedImage, mode, chatSession>>
    /\ UNCHANGED <<avars, svars, cvars>>

\* The end of a send that appends a message of its own, whose id is
\* Date.now().
SendEndsWith(i, kind) ==
    /\ \E reading \in Readings :
         /\ clock' = reading
         /\ messages' = Append(messages, Message(reading, "model", kind))
    /\ SendEnds(i)

\* sendMessageStream resolves, a round trip to the backend after the send:
\* botMsgId is Date.now() + 1 and the placeholder is appended.
StreamOpens ==
    \E i \in DOMAIN inFlight :
        /\ inFlight[i].flow = "stream" /\ inFlight[i].stage = "request"
        /\ \E reading \in Readings :
             /\ reading > inFlight[i].sentAt
             /\ clock' = reading
             /\ messages' = Append(messages, Message(reading + 1, "model", "placeholder"))
             /\ inFlight' = [inFlight EXCEPT ![i].stage = "streaming",
                                             ![i].botMsgId = reading + 1]
        /\ UNCHANGED <<chatDefinition, isChatOpen, input, pastedImage, mode, isTyping,
                       chatSession>>
        /\ UNCHANGED <<avars, svars, cvars>>

\* The text of the k-th chunk of a stream: c.text || '' of a chunk with a
\* text, told from the others by its number, or of a chunk with none.
TextChunks(k) == {<<k>>, <<>>}

\* fullResponse += textChunk, put before the response.
AccumulateInFront(fullResponse, textChunk) == textChunk \o fullResponse

\* fullResponse += textChunk.
Accumulate(fullResponse, textChunk) == fullResponse \o textChunk

\* prev.map(msg => msg.id === botMsgId ? { ...msg, text: fullResponse } : msg).
SetTextById(msgs, botMsgId, fullResponse) ==
    [k \in DOMAIN msgs |->
        IF msgs[k].id = botMsgId THEN [msgs[k] EXCEPT !.text = fullResponse] ELSE msgs[k]]

\* A chunk arrives: the text of the placeholder becomes fullResponse.
StreamFragment ==
    \E i \in DOMAIN inFlight :
        /\ inFlight[i].stage = "streaming"
        /\ Len(inFlight[i].chunks) < MaxFragments
        /\ \E textChunk \in TextChunks(Len(inFlight[i].chunks) + 1) :
             LET fullResponse == Accumulate(inFlight[i].fullResponse, textChunk)
             IN /\ inFlight' = [inFlight EXCEPT ![i].chunks = Append(@, textChunk),
                                                ![i].fullResponse = fullResponse]
                /\ messages' = SetTextById(messages, inFlight[i].botMsgId, fullResponse)
        /\ UNCHANGED <<chatDefinition, isChatOpen, input, pastedImage, mode, isTyping,
                       chatSession, clock>>
        /\ UNCHANGED <<avars, svars, cvars>>

\* The stream ends.
StreamEnds ==
    \E i \in DOMAIN inFlight :
        /\ inFlight[i].stage = "streaming"
        /\ UNCHANGED <<messages, clock>>
        /\ SendEnds(i)

\* sendMessageStream rejects, or the stream fails part of the way: the
\* catch block appends its message.
StreamFails ==
    \E i \in DOMAIN inFlight :
        /\ inFlight[i].flow = "stream"
        /\ SendEndsWith(i, "error")

\* editImage resolves with the edited image.
EditResolves ==
    \E i \in DOMAIN inFlight :
        /\ inFlight[i].flow = "edit"
        /\ SendEndsWith(i, "edited")

\* editImage rejects: the inner catch block appends its message.
EditFails ==
    \E i \in DOMAIN inFlight :
        /\ inFlight[i].flow = "edit"
        /\ SendEndsWith(i, "apology")

ChatNext ==
    \/ ToggleChat
    \/ TypeInput
    \/ PasteImage
    \/ RemoveImage
    \/ SetMode
    \/ ClickSend
    \/ PressEnter
    \/ StreamOpens
    \/ StreamFragment
    \/ StreamEnds
    \/ StreamFails
    \/ EditResolves
    \/ EditFails

(***************************************************************************)
(* The service operations as calls.                                        *)
(***************************************************************************)
\* The steps of a path as generateLearningPath returns it, and of the path
\* after its first step was completed.
PathSteps ==
    LET fresh == {EnrichSteps(steps) : steps \in BackendSteps({"none"})}
    IN fresh \cup {CompleteSteps(steps, 1) : steps \in fresh \ {<<>>}}

\* The ids handleStepComplete is called with: those of the steps and one
\* that no step has.
StepIds == 1 .. MaxSteps + 1

IdleCs ==
    [called |-> FALSE, user |-> NoUser, paths |-> <<>>, activePathId |-> 0, stepId |-> 0,
     out |-> [user |-> NoUser, paths |-> <<>>]]

ServiceIdle ==
    /\ ~lpCall.called /\ ~dcCall.called /\ ~rvCall.called
    /\ ~evCall.called /\ ~hintCall.called /\ ~pjCall.called
    /\ ~csCall.called

ServiceInit ==
    /\ lpCall = IdleLp /\ dcCall = IdleDc /\ rvCall = IdleRv
    /\ evCall = IdleEv /\ hintCall = IdleHint /\ pjCall = IdlePj
    /\ csCall = IdleCs

CallGenerateLearningPath ==
    /\ ServiceIdle
    /\ \E resp \in PathResponses :
        lpCall' = [called |-> TRUE, in |-> resp, out |-> generateLearningPath(resp, 1)]
    /\ UNCHANGED <<dcCall, rvCall, evCall, hintCall, pjCall, csCall>>
    /\ UNCHANGED <<avars, cvars, tvars>>

CallGenerateDailyChallenge ==
    /\ ServiceIdle
    /\ \E resp \in DesignResponses, img \in ImageResponses :
        dcCall' = [called |-> TRUE, design |-> resp, image |-> img,
                   out |-> generateDailyChallenge(resp, img, 1)]
    /\ UNCHANGED <<lpCall, rvCall, evCall, hintCall, pjCall, csCall>>
    /\ UNCHANGED <<avars, cvars, tvars>>

CallReviewSubmission ==
    /\ ServiceIdle
    /\ \E file \in Files, resp \in ReviewResponses :
        rvCall' = [called |-> TRUE, file |-> file, in |-> resp,
                   out |-> reviewSubmission(file, resp)]
    /\ UNCHANGED <<lpCall, dcCall, evCall, hintCall, pjCall, csCall>>
    /\ UNCHANGED <<avars, cvars, tvars>>

CallEvaluateChallengeSubmission ==
    /\ ServiceIdle
    /\ \E url \in RefUrls, file \in Files, resp \in EvaluationResponses :
        evCall' = [called |-> TRUE, url |-> url, file |-> file, in |-> resp,
                   out |-> evaluateChallengeSubmission(url, file, resp)]
    /\ UNCHANGED <<lpCall, dcCall, rvCall, hintCall, pjCall, csCall>>
    /\ UNCHANGED <<avars, cvars, tvars>>

CallGenerateHint ==
    /\ ServiceIdle
    /\ \E resp \in HintResponses :
        hintCall' = [called |-> TRUE, in |-> resp, out |-> generateHint(resp)]
    /\ UNCHANGED <<lpCall, dcCall, rvCall, evCall, pjCall, csCall>>
    /\ UNCHANGED <<avars, cvars, tvars>>

\* App.handleStepComplete on a state of one path, with or without a user
\* and an active path.
CallCompleteStep ==
    /\ ServiceIdle
    /\ \E present \in BOOLEAN, pathId \in {0, 1}, steps \in PathSteps, stepId \in StepIds :
        LET u == [present |-> present, xp |-> 0]
            ps == <<[id |-> 1, steps |-> steps]>>
        IN csCall' = [called |-> TRUE, user |-> u, paths |-> ps, activePathId |-> pathId,
                      stepId |-> stepId, out |-> handleStepComplete(u, ps, pathId, stepId)]
    /\ UNCHANGED <<lpCall, dcCall, rvCall, evCall, hintCall, pjCall>>
    /\ UNCHANGED <<avars, cvars, tvars>>

CallParseJSON ==
    /\ ServiceIdle
    /\ \E text \in Texts :
        pjCall' = [called |-> TRUE, text |-> text, out |-> parseJSON(text)]
    /\ UNCHANGED <<lpCall, dcCall, rvCall, evCall, hintCall, csCall>>
    /\ UNCHANGED <<avars, cvars, tvars>>

\* The caller takes the outcome; the service is ready for the next call.
ServiceReturn ==
    /\ ~ServiceIdle
    /\ lpCall' = IdleLp /\ dcCall' = IdleDc /\ rvCall' = IdleRv
    /\ evCall' = IdleEv /\ hintCall' = IdleHint /\ pjCall' = IdlePj
    /\ csCall' = IdleCs
    /\ UNCHANGED <<avars, cvars, tvars>>

ServiceNext ==
    \/ CallGenerateLearningPath
    \/ CallGenerateDailyChallenge
    \/ CallReviewSubmission
    \/ CallEvaluateChallengeSubmission
    \/ CallGenerateHint
    \/ CallParseJSON
    \/ CallCompleteStep
    \/ ServiceReturn

(***************************************************************************)
(* The specifications.                                                     *)
(***************************************************************************)
vars == <<user, paths, activePathId, view, now, loading, lastSubmit,
          selectedStep, feedback, uploading, reviewed,
          lpCall, dcCall, rvCall, evCall, hintCall, pjCall, csCall,
          activeChallenge, isChallengeStarted, loadingChallenge, elapsedSeconds,
          penaltySeconds, hints, loadingHint, challengeUploading, submissionResult,
          intervals, lastDismiss,
          chatDefinition, isChatOpen, messages, input, pastedImage, mode, isTyping,
          inFlight, chatSession, clock>>

Init == AppInit /\ ServiceInit /\ ChallengeInit /\ ChatInit

Next ==
    \/ SubmitStart
    \/ SubmitSettle
    \/ AddPath
    \/ NavigateToPath
    \/ ShowCurrentPath
    \/ BackToDashboard
    \/ SelectStep
    \/ UploadStart
    \/ ReviewSettle
    \/ Advance

Spec == Init /\ [][Next]_vars

SpecService == Init /\ [][ServiceNext]_vars

\* A session on the dashboard, the chat panel as App imports it.
SessionInit == OnboardedInit /\ ServiceInit /\ ChallengeInit /\ ChatInit

SpecChallenge == SessionInit /\ [][ChallengeNext]_vars

\* A session on the dashboard, the chat panel of either definition.
ChatSessionInit == OnboardedInit /\ ServiceInit /\ ChallengeInit /\ ChatPanelInit

SpecChat == ChatSessionInit /\ [][ChatNext]_vars

(***************************************************************************)
(* Claims about the service operations, checked under SpecService.         *)
(***************************************************************************)
\* C1: every path generateLearningPath returns has its first step active and
\* every other step locked, whatever status the backend put on the steps.
C1_FirstActiveOthersLocked ==
    (lpCall.called /\ ~lpCall.out.rejected) =>
        \A i \in DOMAIN lpCall.out.path.steps :
            lpCall.out.path.steps[i].status = IF i = 1 THEN "active" ELSE "locked"

\* A returned path whose backend steps carried other statuses.
C1_Witness ==
    /\ lpCall.called /\ ~lpCall.out.rejected
    /\ Len(lpCall.in.body.steps) >= 3
    /\ lpCall.in.body.steps[1].status = "completed"
    /\ lpCall.in.body.steps[2].status = "active"
    /\ lpCall.in.body.steps[3].status = "none"

\* C7: whatever the design stage and the image stage return,
\* generateDailyChallenge resolves to a Challenge and never rejects.
C7_ChallengeAlwaysReturned == dcCall.called => ~dcCall.out.rejected

\* The design stage failed: the transport, or a text parseJSON rejects.
DesignStageFailed(resp) ==
    resp.fails \/ parseJSON(TextOrEmptyObject(resp.text)) = "throw"

\* C8: when the design stage fails, the challenge has the fallback design's
\* fields, its image URL is a generated image or the placeholder, and the
\* image stage was attempted with the fallback imagePrompt.
C8_FallbackDesignOnFailure ==
    (dcCall.called /\ DesignStageFailed(dcCall.design)) =>
        /\ ~dcCall.out.rejected
        /\ dcCall.out.challenge.title = Str("Speed Modeling")
        /\ dcCall.out.challenge.theme = Str("Abstract")
        /\ dcCall.out.challenge.goldTime = Num(10)
        /\ dcCall.out.challenge.silverTime = Num(20)
        /\ dcCall.out.challenge.bronzeTime = Num(30)
        /\ dcCall.out.challenge.referenceImageUrl[1] \in {DataPrefix, PlaceholderPrefix}
        /\ dcCall.out.imageCalled
        /\ dcCall.out.imagePrompt = Str("Abstract 3d shape floating in void, colorful")

\* The design text was unparseable prose and the image model answered with
\* an image.
C8_Witness ==
    /\ dcCall.called
    /\ ~dcCall.design.fails /\ dcCall.design.text = <<"prose", "{">>
    /\ ~dcCall.image.fails /\ FirstInline(dcCall.image.parts) = 2
    /\ dcCall.out.challenge.referenceImageUrl = <<DataPrefix, "iVBOR">>

\* The image stage returned an inline image part.
ImageReturned(img) == ~img.fails /\ \E i \in DOMAIN img.parts : img.parts[i].inline

\* C9: the referenceImageUrl of a returned Challenge is never empty; it is a
\* data: URL exactly when the image stage returned an inline image part and
\* the text-labelled placeholder URL otherwise.
C9_ImageUrlDataOrPlaceholder ==
    (dcCall.called /\ ~dcCall.out.rejected) =>
        LET url == dcCall.out.challenge.referenceImageUrl
        IN /\ url # <<>>
           /\ (url[1] = DataPrefix) <=> ImageReturned(dcCall.image)
           /\ (url[1] = PlaceholderPrefix) <=> ~ImageReturned(dcCall.image)
           /\ url[1] = PlaceholderPrefix =>
                 url[2] = encodeURIComponent(StringOf(dcCall.out.challenge.title))

\* The image model answered without an image part and the design succeeded.
C9_Witness ==
    /\ dcCall.called /\ ~dcCall.out.rejected
    /\ ~dcCall.design.fails /\ dcCall.out.challenge.title = Str("Gear")
    /\ ~dcCall.image.fails /\ Len(dcCall.image.parts) = 2
    /\ dcCall.out.challenge.referenceImageUrl = <<PlaceholderPrefix, "Gear">>

\* The review failed: the file, the transport or the parse.
ReviewFailed(file, resp) ==
    \/ ~file.readable
    \/ resp.fails
    \/ parseJSON(TextOrEmptyObject(resp.text)) = "throw"

\* C10: reviewSubmission never rejects; on a failure of the file read, of the
\* remote call or of the parse it resolves to the safe default, passed = false.
C10_ReviewNeverRejects ==
    rvCall.called =>
        /\ ~rvCall.out.rejected
        /\ ReviewFailed(rvCall.file, rvCall.in) =>
              (~rvCall.out.isNull /\ rvCall.out.value = SafeReview)

\* The evaluation failed: the file, the transport or the parse.
EvaluationFailed(file, resp) ==
    \/ ~file.readable
    \/ resp.fails
    \/ parseJSON(TextOrEmptyObject(resp.text)) = "throw"

\* C11: evaluateChallengeSubmission never rejects; on a transport failure and
\* on any other failure of the operation it resolves to the optimistic
\* default, passed = true and score = 85.
C11_EvaluationNeverRejects ==
    evCall.called =>
        /\ ~evCall.out.rejected
        /\ EvaluationFailed(evCall.file, evCall.in) =>
              /\ ~evCall.out.isNull
              /\ evCall.out.value.passed = Bool(TRUE)
              /\ evCall.out.value.score = Num(85)

\* The request holds an inline part with the reference image.
HasReferencePart(parts) ==
    \E i \in DOMAIN parts : parts[i].kind = "inlineData" /\ parts[i].of = "reference"

\* The request holds the inline part with the user's image.
HasUserPart(parts) ==
    \E i \in DOMAIN parts : parts[i].kind = "inlineData" /\ parts[i].of = "user"

\* C12: the request evaluateChallengeSubmission sends holds an inline
\* reference-image part exactly when the reference URL is a data: URL, none
\* for a placeholder URL, and the user's image part in both cases.
C12_ReferencePartIffDataUrl ==
    (evCall.called /\ evCall.out.request.sent) =>
        /\ HasReferencePart(evCall.out.request.parts) <=> evCall.url[1] = DataPrefix
        /\ evCall.url[1] = PlaceholderPrefix => ~HasReferencePart(evCall.out.request.parts)
        /\ HasUserPart(evCall.out.request.parts)

\* A readable file judged against a placeholder reference: the request went
\* out with the user's image and the prompt only.
C12_Witness ==
    /\ evCall.called /\ evCall.out.request.sent
    /\ evCall.url = <<PlaceholderPrefix, "Gear">>
    /\ ~evCall.in.fails
    /\ Len(evCall.out.request.parts) = 2

\* C13: reviewSubmission and evaluateChallengeSubmission return a parsed
\* record only when it carries the required fields: passed and feedback, and
\* score for the evaluation; a response such as {} is replaced by the default.
C13_RequiredFieldsChecked ==
    /\ (rvCall.called /\ ~rvCall.out.rejected) =>
          /\ ~rvCall.out.isNull
          /\ rvCall.out.value.passed.type = "boolean"
          /\ rvCall.out.value.feedback.type = "string"
    /\ (evCall.called /\ ~evCall.out.rejected) =>
          /\ ~evCall.out.isNull
          /\ evCall.out.value.passed.type = "boolean"
          /\ evCall.out.value.score.type = "number"
          /\ evCall.out.value.feedback.type = "string"

\* C14: generateHint makes one remote call and resolves to a non-empty
\* string: the backend's text when there is one, a fixed fallback string when
\* the call fails or the text is empty; it never rejects.
C14_HintAlwaysNonEmpty ==
    hintCall.called =>
        /\ ~hintCall.out.rejected
        /\ hintCall.out.calls = 1
        /\ hintCall.out.value.type = "string" /\ hintCall.out.value.s # ""
        /\ (~hintCall.in.fails /\ Truthy(hintCall.in.text)) =>
              hintCall.out.value = hintCall.in.text
        /\ hintCall.in.fails => hintCall.out.value = FailedCallHint
        /\ (~hintCall.in.fails /\ ~Truthy(hintCall.in.text)) =>
              hintCall.out.value = EmptyTextHint

\* The backend answered the hint prompt with an empty text.
C14_Witness ==
    /\ hintCall.called /\ ~hintCall.in.fails /\ hintCall.in.text = Str("")
    /\ hintCall.out.value = EmptyTextHint

\* C15: parseJSON returns the direct parse of the text when that succeeds,
\* otherwise the parse of the text from its first "{" through its last "}",
\* and it raises an error when neither yields a value.
C15_ExtractorDirectThenBraces ==
    pjCall.called =>
        LET t == pjCall.text
            opens == {i \in DOMAIN t : t[i] = "{"}
            closes == {i \in DOMAIN t : t[i] = "}"}
            between ==
                {<<i, j>> \in opens \X closes :
                    /\ i < j
                    /\ \A k \in opens : i <= k
                    /\ \A k \in closes : k <= j}
        IN IF JSONParse(t) # "throw" THEN pjCall.out = JSONParse(t)
           ELSE IF between = {} THEN pjCall.out = "throw"
           ELSE \A b \in between : pjCall.out = JSONParse(SubSeq(t, b[1], b[2]))

\* Prose followed by an object, and an object followed by a stray brace:
\* the first is extracted, the second raises.
C15_Witness ==
    /\ pjCall.called
    /\ \/ pjCall.text = <<"prose", "{", "}">> /\ pjCall.out = "emptyObject"
       \/ pjCall.text = <<"{", "}", "}">> /\ pjCall.out = "throw"

\* A positive number of minutes.
PositiveMinutes(v) == v.type = "number" /\ v.s = "" /\ v.n > 0

\* C24: every challenge generateDailyChallenge returns, whatever the design
\* stage returned, has positive goldTime, silverTime and bronzeTime with
\* goldTime <= silverTime <= bronzeTime.
C24_ChallengeTimesPositiveOrdered ==
    (dcCall.called /\ ~dcCall.out.rejected) =>
        /\ PositiveMinutes(dcCall.out.challenge.goldTime)
        /\ PositiveMinutes(dcCall.out.challenge.silverTime)
        /\ PositiveMinutes(dcCall.out.challenge.bronzeTime)
        /\ dcCall.out.challenge.goldTime.n <= dcCall.out.challenge.silverTime.n
        /\ dcCall.out.challenge.silverTime.n <= dcCall.out.challenge.bronzeTime.n

\* No step of the call's path has the id the call was given.
UnknownStep == \A i \in DOMAIN csCall.paths[1].steps : csCall.paths[1].steps[i].id # csCall.stepId

\* C28: handleStepComplete with a step id that no step of the active path
\* has, or with no active path or no user, changes nothing: the paths and
\* the user's xp are as they were.
C28_UnknownStepChangesNothing ==
    (csCall.called /\ (UnknownStep \/ csCall.activePathId = 0 \/ ~csCall.user.present)) =>
        /\ csCall.out.paths = csCall.paths
        /\ csCall.out.user = csCall.user

(***************************************************************************)
(* Claims about the challenge timer, checked under SpecChallenge.          *)
(***************************************************************************)
\* The times of the challenge are numbers with 0 < gold <= silver <= bronze.
OrderedTimes(challenge) ==
    /\ challenge.goldTime.type = "number"
    /\ challenge.silverTime.type = "number"
    /\ challenge.bronzeTime.type = "number"
    /\ 0 < challenge.goldTime.n
    /\ challenge.goldTime.n <= challenge.silverTime.n
    /\ challenge.silverTime.n <= challenge.bronzeTime.n

\* C16: with 0 < goldTime <= silverTime <= bronzeTime and m = total / 60, the
\* tier is GOLD if m <= goldTime, SILVER if goldTime < m <= silverTime, BRONZE
\* if silverTime < m <= bronzeTime and FAIL if m > bronzeTime.
C16_TierFromTotalMinutes ==
    (ChallengeViewMounted /\ OrderedTimes(activeChallenge)) =>
        LET gold == activeChallenge.goldTime.n * 60
            silver == activeChallenge.silverTime.n * 60
            bronze == activeChallenge.bronzeTime.n * 60
            tier == currentTier(activeChallenge, TotalSeconds)
        IN /\ TotalSeconds <= gold => tier = "GOLD"
           /\ (gold < TotalSeconds /\ TotalSeconds <= silver) => tier = "SILVER"
           /\ (silver < TotalSeconds /\ TotalSeconds <= bronze) => tier = "BRONZE"
           /\ bronze < TotalSeconds => tier = "FAIL"

\* Times 10/20/30 and a total of 900 seconds, seven hints and sixty ticks:
\* the tier is SILVER.
C16_Witness ==
    /\ ChallengeViewMounted
    /\ activeChallenge.goldTime = Num(10)
    /\ activeChallenge.silverTime = Num(20)
    /\ activeChallenge.bronzeTime = Num(30)
    /\ TotalSeconds = 900
    /\ currentTier(activeChallenge, TotalSeconds) = "SILVER"

\* C17: timeToNext is the cutoff of the current tier in seconds minus total
\* in GOLD, SILVER and BRONZE, 0 in FAIL, and it is never negative, whatever
\* the elapsed time, the penalty and the times of the challenge.
C17_TimeToNextNeverNegative ==
    ChallengeViewMounted =>
        LET tier == currentTier(activeChallenge, TotalSeconds)
            left == timeToNext(activeChallenge, TotalSeconds)
            cutoff == CASE tier = "GOLD" -> activeChallenge.goldTime
                        [] tier = "SILVER" -> activeChallenge.silverTime
                        [] tier = "BRONZE" -> activeChallenge.bronzeTime
                        [] OTHER -> Undefined
            shown == NextCutoffShown(activeChallenge, TotalSeconds)
        IN /\ (tier # "FAIL" /\ cutoff.type = "number") =>
                 left = Num(cutoff.n * 60 - TotalSeconds)
           /\ tier = "FAIL" => left = Num(0)
           /\ left.n >= 0
           /\ shown[1] >= 0 /\ shown[2] >= 0
           /\ left.n >= 0 /\ left # NaN => shown = <<left.n \div 60, left.n % 60>>

\* Times 10/20/30 and a total of 900 seconds: 300 seconds to the silver
\* cutoff, shown as 05:00.
C17_Witness ==
    /\ ChallengeViewMounted
    /\ activeChallenge.goldTime = Num(10)
    /\ activeChallenge.silverTime = Num(20)
    /\ activeChallenge.bronzeTime = Num(30)
    /\ elapsedSeconds = 60 /\ penaltySeconds = 840
    /\ timeToNext(activeChallenge, TotalSeconds) = Num(300)
    /\ NextCutoffShown(activeChallenge, TotalSeconds) = <<5, 0>>

\* C18: every hint request raises the penalty by exactly 120 seconds, however
\* many hints were requested before and with no time between two requests,
\* and the outcome of the hint generation leaves the penalty as it is.
C18_HintPenaltyExact ==
    [][/\ RequestHint => penaltySeconds' = penaltySeconds + 120
       /\ HintSettle => (penaltySeconds' = penaltySeconds /\ hints'.count = hints.count + 1)
       /\ penaltySeconds' = 120 * (hints'.count + IF loadingHint' THEN 1 ELSE 0)]_vars

\* Two hints requested before the first tick, the second of them answered
\* by a failed call: the penalty is 240 seconds.
C18_Witness ==
    /\ ChallengeViewMounted
    /\ elapsedSeconds = 0
    /\ hints = [count |-> 2, last |-> FailedCallHint]
    /\ ~loadingHint
    /\ penaltySeconds = 240

\* C19: when the challenge view is dismissed, by finish or by a confirmed
\* cancel, its tick is cancelled: with no view on the screen no timer lives,
\* no tick fires and elapsed does not change; and a view has one timer.
C19_TickCancelledOnDismiss ==
    [][/\ intervals' <= 1
       /\ ChallengeViewMounted' => intervals' = 1
       /\ ~ChallengeViewMounted' => intervals' = 0
       /\ ~ChallengeViewMounted => ~Tick
       /\ (~ChallengeViewMounted /\ ~ChallengeViewMounted') =>
             elapsedSeconds' = elapsedSeconds]_vars

\* The view was dismissed by Claim Reward after a passed submission.
C19_Witness ==
    /\ lastDismiss = "finish"
    /\ ~ChallengeViewMounted
    /\ intervals = 0

\* The times of the challenge are numbers with gold <= silver <= bronze.
NonDecreasingTimes(challenge) ==
    /\ challenge.goldTime.type = "number"
    /\ challenge.silverTime.type = "number"
    /\ challenge.bronzeTime.type = "number"
    /\ challenge.goldTime.n <= challenge.silverTime.n
    /\ challenge.silverTime.n <= challenge.bronzeTime.n

\* The place of a tier on the way GOLD, SILVER, BRONZE, FAIL.
TierRank(tier) ==
    CASE tier = "GOLD" -> 0
      [] tier = "SILVER" -> 1
      [] tier = "BRONZE" -> 2
      [] tier = "FAIL" -> 3

\* C29: for a challenge with goldTime <= silverTime <= bronzeTime the tier
\* never improves during a session: over every step that leaves the view
\* mounted, timer ticks and hint requests among them, the tier stays or
\* moves on along GOLD, SILVER, BRONZE, FAIL, and FAIL stays FAIL.
C29_TierNeverImproves ==
    [][(ChallengeViewMounted /\ ChallengeViewMounted'
            /\ NonDecreasingTimes(activeChallenge)) =>
          /\ activeChallenge' = activeChallenge
          /\ TierRank(currentTier(activeChallenge', TotalSeconds'))
                >= TierRank(currentTier(activeChallenge, TotalSeconds))]_vars

\* Times 10/20/30: after fifteen hints and a tick the total has passed the
\* bronze time and the tier is FAIL.
C29_Witness ==
    /\ ChallengeViewMounted
    /\ activeChallenge.goldTime = Num(10)
    /\ activeChallenge.silverTime = Num(20)
    /\ activeChallenge.bronzeTime = Num(30)
    /\ hints.count > 0 /\ elapsedSeconds > 0
    /\ currentTier(activeChallenge, TotalSeconds) = "FAIL"

(***************************************************************************)
(* Claims about the chat panel, checked under SpecChat.                    *)
(***************************************************************************)
\* C20: while a chat response is pending, from an accepted send until its
\* stream or edit request has ended or failed, neither the Send button nor
\* the Enter key gets a second send accepted: no request is started and no
\* message is appended.
C20_NoSecondSendWhilePending ==
    [][(inFlight # <<>> /\ (ClickSend \/ PressEnter)) =>
          (messages' = messages /\ inFlight' = inFlight)]_vars

\* The chunks of a stream put together in the order of their arrival.
RECURSIVE Concatenation(_)
Concatenation(chunks) ==
    IF chunks = <<>> THEN <<>> ELSE Head(chunks) \o Concatenation(Tail(chunks))

\* The i-th send has just received a chunk.
ReceivedChunk(i) ==
    /\ i \in DOMAIN inFlight /\ Len(inFlight') = Len(inFlight)
    /\ Len(inFlight'[i].chunks) = Len(inFlight[i].chunks) + 1

\* C21: during a send of AIChat (src/unnamed/part_003), every chunk of the
\* stream goes to one and the same placeholder message, the one with the
\* send's botMsgId: after the k-th chunk its text is the concatenation of
\* chunks 1..k in their order of arrival, and no other message of the
\* transcript changes.
C21_FragmentsAppendedInOrder ==
    [][(chatDefinition = "AIChat" /\ StreamFragment) =>
         \A i \in DOMAIN inFlight : ReceivedChunk(i) =>
            /\ DOMAIN messages' = DOMAIN messages
            /\ \E p \in DOMAIN messages :
                 /\ messages[p].kind = "placeholder"
                 /\ messages[p].id = inFlight[i].botMsgId
                 /\ messages'[p].text = Concatenation(inFlight'[i].chunks)
                 /\ \A k \in DOMAIN messages : k # p => messages'[k] = messages[k]]_vars

\* A second send of AIChat has streamed two chunks with a text into its
\* placeholder, after a first send whose placeholder kept its own text.
C21_Witness ==
    /\ chatDefinition = "AIChat"
    /\ \E i \in DOMAIN inFlight : \E p, q \in DOMAIN messages :
         /\ inFlight[i].chunks = << <<1>>, <<2>> >>
         /\ messages[p].id = inFlight[i].botMsgId /\ messages[p].text = <<1, 2>>
         /\ q < p /\ messages[q].kind = "placeholder" /\ messages[q].text = <<1>>

\* The transcript holds a turn: more than the greeting.
HasPriorTurns == Len(messages) > 1

\* C22: closing and then reopening the chat panel creates a new
\* conversational context with no memory of prior turns: when a closed
\* panel whose transcript holds a turn is opened, the transcript is the
\* greeting alone and the chat session is a new one.
C22_ReopenStartsNewContext ==
    [][(ToggleChat /\ ~isChatOpen /\ HasPriorTurns) =>
          /\ messages' = <<Message(InitId, "model", "init")>>
          /\ chatSession' # chatSession]_vars

\* A send has just ended: its request or stream ended or failed.
SendEnded == Len(inFlight') < Len(inFlight)

\* C30: every accepted send clears the response-pending flag once its
\* backend call or stream has ended or failed: every step that ends a send,
\* in the stream flow or the edit flow, by success or by failure, leaves
\* isTyping false, and isTyping holds only while a send is still pending,
\* so the chat never stays blocked with nothing left to wait for.
C30_SendAlwaysClearsTyping ==
    [][/\ SendEnded => ~isTyping'
       /\ isTyping' => inFlight' # <<>>]_vars

\* Under AIChat an edit request has been answered and a stream has failed
\* part of the way, after a chunk: nothing is pending and the flag is clear.
C30_Witness ==
    /\ chatDefinition = "AIChat" /\ inFlight = <<>> /\ ~isTyping
    /\ \E p, q \in DOMAIN messages :
         /\ messages[p].kind = "edited"
         /\ q > p /\ messages[q].kind = "placeholder" /\ messages[q].text # <<>>
         /\ q + 1 \in DOMAIN messages /\ messages[q + 1].kind = "error"

(***************************************************************************)
(* Claims about path progression, checked under Spec.                      *)
(***************************************************************************)
\* C25: the user's xp starts at 0, is never negative and never decreases,
\* whatever steps the backend provided and whatever is done with them.
C25_XpNeverDecreases ==
    /\ user.xp = 0
    /\ [][user'.xp >= 0 /\ user'.xp >= user.xp]_vars

\* The sum of xpReward || 50 over the completed steps of a steps array.
RECURSIVE CompletedRewards(_)
CompletedRewards(steps) ==
    IF steps = <<>> THEN 0
    ELSE (IF Head(steps).status = "completed"
          THEN OrElse(Head(steps).xpReward, Num(DefaultXp)).n ELSE 0)
         + CompletedRewards(Tail(steps))

\* The same sum over every path.
RECURSIVE CompletedRewardsOfPaths(_)
CompletedRewardsOfPaths(ps) ==
    IF ps = <<>> THEN 0
    ELSE CompletedRewards(Head(ps).steps) + CompletedRewardsOfPaths(Tail(ps))

\* C26: each step's reward is granted at most once: the Continue button
\* never completes a step that is already completed, and the xp earned
\* never exceeds the sum of (xpReward or 50) over the completed steps.
C26_RewardGrantedAtMostOnce ==
    /\ [][Advance => SelectedStatus # "completed"]_vars
    /\ [](user.xp <= CompletedRewardsOfPaths(paths))

\* C27: the Continue button completes a step only when the review result
\* PathView holds is a passed one and came from reviewing that same step.
C27_CompletesOnlyTheReviewedStep ==
    [][Advance => (feedback = "passed" /\ reviewed = selectedStep)]_vars

\* The position of the last step with the status, 0 if there is none.
LastWithStatus(steps, status) ==
    LET found == {i \in DOMAIN steps : steps[i].status = status}
    IN IF found = {} THEN 0 ELSE CHOOSE i \in found : \A k \in found : i >= k

\* C23: the current step derived for the chat context is the first step
\* with status active and, for a path with no active step, the last
\* completed step of the path.
C23_CurrentStepActiveElseLastCompleted ==
    ActivePathIndex # 0 =>
        activeStep = IF FindStatus(ActiveSteps, "active") # 0
                     THEN FindStatus(ActiveSteps, "active")
                     ELSE LastWithStatus(ActiveSteps, "completed")

\* handleAdvance completes the selected step, and that step is active.
CompletesActiveStep == Advance /\ SelectedStatus = "active"

\* C2: completing the active step of the active path makes it completed and
\* the next step, if any, active; no other step of the path changes and no
\* other path changes.
C2_CompleteActiveStep ==
    [][CompletesActiveStep =>
        LET k == ActivePathIndex
            i == FindIndex(ActiveSteps, selectedStep)
        IN /\ DOMAIN paths' = DOMAIN paths
           /\ DOMAIN paths'[k].steps = DOMAIN paths[k].steps
           /\ paths'[k].steps[i].status = "completed"
           /\ i < Len(paths[k].steps) => paths'[k].steps[i + 1].status = "active"
           /\ \A j \in DOMAIN paths[k].steps :
                 j \notin {i, i + 1} => paths'[k].steps[j] = paths[k].steps[j]
           /\ \A m \in DOMAIN paths : m # k => paths'[m] = paths[m]]_vars

\* Two paths; the first step of one was completed and its second step is
\* active while the other path has a step with the same id.
C2_Witness ==
    /\ Len(paths) = 2
    /\ \E k \in DOMAIN paths :
        /\ paths[k].id = activePathId
        /\ Len(paths[k].steps) >= 3
        /\ paths[k].steps[1].status = "completed"
        /\ paths[k].steps[2].status = "active"
        /\ paths[k].steps[3].status = "locked"
        /\ \E m \in DOMAIN paths : m # k /\ paths[m].steps # <<>>
    /\ user.xp > 0

\* The xp the claim awards for a step: its xpReward when it has one, 0
\* included, and 50 when it has none.
ClaimedXp(step) == IF step.xpReward.type = "number" THEN step.xpReward.n ELSE 50

\* C3: completing the active step raises xp by exactly the step's xpReward
\* for every non-negative xpReward, 0 included, and by 50 only when the step
\* has no xpReward.
C3_XpExactlyReward ==
    [][CompletesActiveStep =>
        user'.xp = user.xp
            + ClaimedXp(ActiveSteps[FindIndex(ActiveSteps, selectedStep)])]_vars

\* C4: every learning path has at most one active step in every reachable
\* state.
C4_AtMostOneActive ==
    \A k \in DOMAIN paths :
        Cardinality({i \in DOMAIN paths[k].steps :
                        paths[k].steps[i].status = "active"}) <= 1

StatusRank(st) ==
    CASE st = "locked" -> 0
      [] st \in {"active", "reviewing"} -> 1
      [] st = "completed" -> 2

\* C5: no step's status ever moves backward in locked -> active -> completed.
C5_StatusNeverBackward ==
    [][\A k \in DOMAIN paths : \A i \in DOMAIN paths[k].steps :
          StatusRank(paths'[k].steps[i].status)
              >= StatusRank(paths[k].steps[i].status)]_vars

\* C6: when the remote call fails, the text does not parse or the parsed
\* value has no steps array, generateLearningPath rejects and handleSubmit
\* adds no path and creates or changes no profile.
C6_FailedGenerationAddsNothing ==
    [][(loading /\ ~loading'
          /\ lastSubmit'.kind \in {"transportFailure", "malformedResponse", "missingSteps"})
        => (lastSubmit'.rejected /\ paths' = paths /\ user' = user /\ view' = view)]_vars

\* A second path was asked for with a profile in place and the backend
\* answered with an object without a steps array.
C6_Witness ==
    /\ lastSubmit.kind = "missingSteps" /\ lastSubmit.rejected
    /\ view = "onboarding" /\ ~loading
    /\ user.present /\ user.xp > 0 /\ Len(paths) = 1

====
